---- MODULE Spec2Model ----
(***************************************************************************)
(* A model of go-lexorank (src/lexorank.go): the ASCII character set, the  *)
(* key generator's Between and the bucket layer.  A Go string over ASCII   *)
(* is a sequence of code points (0..127 fit one byte, so bytes, runes and  *)
(* their order coincide); "" is the empty sequence <<>>.                   *)
(***************************************************************************)
EXTENDS Integers, Sequences, FiniteSets, TLC

VARIABLES
  characterSet,  \* Generator.characterSet: [runes, runeToIndex]
  initial,       \* Generator.initial
  optInitial,    \* the argument of WithInitial ("" when the option is not given)
  prevKey,       \* Between's first argument
  nextKey,       \* Between's second argument
  key,           \* the Key a call returned
  err,           \* the error a call returned (NoError for nil)
  pc,            \* the caller's position: "call" before a call, "done" after it
  depth,         \* the calls the caller may still make
  origin,        \* the fixed bound of the keep-generating loops
  keys,          \* the keys of the caller's list
  bucket,        \* Bucket: [defaultPrefix, separator]
  prev,          \* Bucket.Between's first argument
  next,          \* Bucket.Between's second argument
  bucketKey,     \* the BucketKey a bucket call returned
  tag,           \* createBucketKey's bucket argument
  bare,          \* createBucketKey's key argument
  split,         \* what SplitBucketKey returned: <<bucket, key>>
  set,           \* NewASCIICharacterSet's argument
  setResult      \* what NewASCIICharacterSet returned: [set, err]

vars == <<characterSet, initial, optInitial, prevKey, nextKey, key, err, pc,
          depth, origin, keys, bucket, prev, next, bucketKey, tag, bare,
          split, set, setResult>>

---------------------------------------------------------------------------
(* Bounds of the model.                                                    *)

MaxAlphabet == 3
MaxLen == 3
MaxCalls == 2
MaxStartLen == 2
MaxDepth == 4
MaxKeep == 5
MaxBucketLen == 3
MaxTagLen == 2
MaxSetLen == 3
MaxInsert == 3

(* Program constants.                                                      *)

ASCIISize == 128
MaxASCII == 127
DefaultInitialLen == 6

NoError == "nil"
ErrNextOfMin == "next character of min character not found"
ErrAllMin == "cannot generate key strictly before"
ErrOrder == "prevKey must be strictly less than nextKey"
ErrPrevFormat == "prev key is not in format of bucket key"
ErrNextFormat == "next key is not in format of bucket key"
ErrBucketMismatch == "bucket mismatch"
ErrNotASCII == "is not an ASCII character"
ErrDuplicated == "is duplicated"

---------------------------------------------------------------------------
(* Go strings and slices.                                                  *)

\* s[lo:hi] of Go, 0-based and half-open
Slice(s, lo, hi) == SubSeq(s, lo + 1, hi)

\* strings.Repeat(string(c), n)
Repeat(c, n) == [i \in 1..n |-> c]

\* a < b of two Go strings: bytewise lexicographic, a proper prefix is smaller
RECURSIVE StrLess(_, _)
StrLess(a, b) ==
  IF b = <<>> THEN FALSE
  ELSE IF a = <<>> THEN TRUE
  ELSE IF Head(a) < Head(b) THEN TRUE
  ELSE IF Head(a) > Head(b) THEN FALSE
  ELSE StrLess(Tail(a), Tail(b))

\* every sequence over S of length at most n
SeqsUpTo(S, n) == UNION {[1..k -> S] : k \in 0..n}

\* slices.Sort: insertion of each element into the sorted rest
RECURSIVE Insert(_, _)
Insert(x, s) ==
  IF s = <<>> THEN <<x>>
  ELSE IF x <= Head(s) THEN <<x>> \o s
  ELSE <<Head(s)>> \o Insert(x, Tail(s))

RECURSIVE Sort(_)
Sort(s) == IF s = <<>> THEN <<>> ELSE Insert(Head(s), Sort(Tail(s)))

---------------------------------------------------------------------------
(* characterSet.                                                           *)

isASCII(r) == r >= 0 /\ r <= MaxASCII

\* the loop of NewASCIICharacterSet from index i on
RECURSIVE BuildIndex(_, _, _)
BuildIndex(runes, i, runeToIndex) ==
  IF i >= Len(runes) THEN [err |-> NoError, runeToIndex |-> runeToIndex]
  ELSE LET r == runes[i + 1] IN
    IF ~isASCII(r) THEN [err |-> ErrNotASCII, runeToIndex |-> runeToIndex]
    ELSE IF runeToIndex[r] # 0 THEN [err |-> ErrDuplicated, runeToIndex |-> runeToIndex]
    ELSE BuildIndex(runes, i + 1, [runeToIndex EXCEPT ![r] = i])

NilSet == [runes |-> <<>>, runeToIndex |-> [r \in 0..(ASCIISize - 1) |-> 0]]

NewASCIICharacterSet(str) ==
  LET runes == Sort(str)
      built == BuildIndex(runes, 0, [r \in 0..(ASCIISize - 1) |-> 0])
  IN IF built.err # NoError THEN [set |-> NilSet, err |-> built.err]
     ELSE [set |-> [runes |-> runes, runeToIndex |-> built.runeToIndex], err |-> NoError]

Min(c) == c.runes[1]

Max(c) == c.runes[Len(c.runes)]

CharNext(c, r) ==
  LET index == c.runeToIndex[r] IN
  IF index = Len(c.runes) - 1 THEN [r |-> 0, ok |-> FALSE]
  ELSE [r |-> c.runes[index + 2], ok |-> TRUE]

CharPrev(c, r) ==
  LET index == c.runeToIndex[r] IN
  IF index = 0 THEN [r |-> 0, ok |-> FALSE]
  ELSE [r |-> c.runes[index], ok |-> TRUE]

Mid(c, a, b) ==
  LET indexA == c.runeToIndex[a]
      indexB0 == c.runeToIndex[b]
      indexB == IF indexB0 < indexA THEN indexB0 + Len(c.runes) ELSE indexB0
      midIndex == (indexA + indexB) \div 2
      index == midIndex % Len(c.runes)
  IN c.runes[index + 1]

---------------------------------------------------------------------------
(* Generator.                                                              *)

\* a default initial key filled with the minimum character
defaultInitialMin(cs) == Repeat(Min(cs), DefaultInitialLen)

defaultInitial(cs) == Repeat(Mid(cs, Min(cs), Max(cs)), DefaultInitialLen)

\* NewGenerator(WithCharacterSet(cs), WithInitial(init)): the Generator built
NewGenerator(cs, init) ==
  [characterSet |-> cs,
   initial |-> IF init = <<>> THEN defaultInitial(cs) ELSE init]

\* the both-absent case of Between
BetweenInitial(g) == [key |-> g.initial, err |-> NoError]

\* an "after" loop that appends Min itself to an all-maximum key
RECURSIVE BetweenAfterAppendMin(_, _, _)
BetweenAfterAppendMin(g, runes, i) ==
  LET cs == g.characterSet
      n == Len(runes)
  IN IF i < 0
     THEN LET nextToMin == CharNext(cs, Min(cs)) IN
          IF ~nextToMin.ok THEN [key |-> <<>>, err |-> ErrNextOfMin]
          ELSE [key |-> runes \o <<Min(cs)>>, err |-> NoError]
     ELSE LET inc == CharNext(cs, runes[i + 1]) IN
          IF inc.ok
          THEN [key |-> [j \in 1..n |-> IF j - 1 < i THEN runes[j]
                                        ELSE IF j - 1 = i THEN inc.r
                                        ELSE Min(cs)],
                err |-> NoError]
          ELSE BetweenAfterAppendMin(g, runes, i - 1)

\* the loop of the "after" case from index i down, then the append of Next(Min)
RECURSIVE BetweenAfter(_, _, _)
BetweenAfter(g, runes, i) ==
  LET cs == g.characterSet
      n == Len(runes)
  IN IF i < 0
     THEN LET nextToMin == CharNext(cs, Min(cs)) IN
          IF ~nextToMin.ok THEN [key |-> <<>>, err |-> ErrNextOfMin]
          ELSE [key |-> runes \o <<nextToMin.r>>, err |-> NoError]
     ELSE LET inc == CharNext(cs, runes[i + 1]) IN
          IF inc.ok
          THEN [key |-> [j \in 1..n |-> IF j - 1 < i THEN runes[j]
                                        ELSE IF j - 1 = i THEN inc.r
                                        ELSE Min(cs)],
                err |-> NoError]
          ELSE BetweenAfter(g, runes, i - 1)

\* a "before" loop that resets the later positions to Min, as the "after" loop does
RECURSIVE BetweenBeforeResetMin(_, _, _)
BetweenBeforeResetMin(g, runes, i) ==
  LET cs == g.characterSet
      n == Len(runes)
  IN IF i < 0 THEN [key |-> <<>>, err |-> ErrAllMin]
     ELSE LET dec == CharPrev(cs, runes[i + 1]) IN
          IF dec.ok
          THEN [key |-> [j \in 1..n |-> IF j - 1 < i THEN runes[j]
                                        ELSE IF j - 1 = i THEN dec.r
                                        ELSE Min(cs)],
                err |-> NoError]
          ELSE BetweenBeforeResetMin(g, runes, i - 1)

\* the loop of the "before" case from index i down, then the error
RECURSIVE BetweenBefore(_, _, _)
BetweenBefore(g, runes, i) ==
  LET cs == g.characterSet
      n == Len(runes)
  IN IF i < 0 THEN [key |-> <<>>, err |-> ErrAllMin]
     ELSE LET dec == CharPrev(cs, runes[i + 1]) IN
          IF dec.ok
          THEN [key |-> [j \in 1..n |-> IF j - 1 < i THEN runes[j]
                                        ELSE IF j - 1 = i THEN dec.r
                                        ELSE Max(cs)],
                err |-> NoError]
          ELSE BetweenBefore(g, runes, i - 1)

RECURSIVE runesGreaterThan(_, _)
runesGreaterThan(a, b) ==
  IF a = <<>> THEN FALSE
  ELSE IF Head(a) > Head(b) THEN TRUE
  ELSE IF Head(a) < Head(b) THEN FALSE
  ELSE runesGreaterThan(Tail(a), Tail(b))

\* the padding switch: s extended with Min up to length n
\* PadMin padding one position past the longer key
PadMinOneMore(cs, s, n) ==
  s \o Repeat(Min(cs), IF n + 1 > Len(s) THEN n + 1 - Len(s) ELSE 0)

PadMin(cs, s, n) == s \o Repeat(Min(cs), IF n > Len(s) THEN n - Len(s) ELSE 0)

\* a scan that fills the positions after a split with Min
RECURSIVE BetweenScanFillMin(_, _, _, _)
BetweenScanFillMin(g, prevRunes, nextRunes, i) ==
  LET cs == g.characterSet
      n == Len(prevRunes)
      mid == Mid(cs, Min(cs), Max(cs))
  IN IF i >= n THEN [key |-> prevRunes \o <<mid>>, err |-> NoError]
     ELSE LET prevChar == prevRunes[i + 1]
              nextChar == nextRunes[i + 1]
              nx == Mid(cs, prevChar, nextChar)
          IN IF prevChar = nextChar THEN BetweenScanFillMin(g, prevRunes, nextRunes, i + 1)
             ELSE IF nx > prevChar
               THEN [key |-> Slice(prevRunes, 0, i) \o <<nx>> \o Repeat(Min(cs), n - i - 1),
                     err |-> NoError]
             ELSE IF nx < nextChar
                     /\ runesGreaterThan(Slice(nextRunes, 0, i), Slice(prevRunes, 0, i))
               THEN [key |-> Slice(nextRunes, 0, i) \o <<nx>> \o Repeat(Min(cs), n - i - 1),
                     err |-> NoError]
             ELSE BetweenScanFillMin(g, prevRunes, nextRunes, i + 1)

\* a scan whose growth step appends Min
RECURSIVE BetweenScanGrowMin(_, _, _, _)
BetweenScanGrowMin(g, prevRunes, nextRunes, i) ==
  LET cs == g.characterSet
      n == Len(prevRunes)
      mid == Mid(cs, Min(cs), Max(cs))
  IN IF i >= n THEN [key |-> prevRunes \o <<Min(cs)>>, err |-> NoError]
     ELSE LET prevChar == prevRunes[i + 1]
              nextChar == nextRunes[i + 1]
              nx == Mid(cs, prevChar, nextChar)
          IN IF prevChar = nextChar THEN BetweenScanGrowMin(g, prevRunes, nextRunes, i + 1)
             ELSE IF nx > prevChar
               THEN [key |-> Slice(prevRunes, 0, i) \o <<nx>> \o Repeat(mid, n - i - 1),
                     err |-> NoError]
             ELSE IF nx < nextChar
                     /\ runesGreaterThan(Slice(nextRunes, 0, i), Slice(prevRunes, 0, i))
               THEN [key |-> Slice(nextRunes, 0, i) \o <<nx>> \o Repeat(mid, n - i - 1),
                     err |-> NoError]
             ELSE BetweenScanGrowMin(g, prevRunes, nextRunes, i + 1)

\* the scan of the padded keys from index i on, then the growth step
RECURSIVE BetweenScan(_, _, _, _)
BetweenScan(g, prevRunes, nextRunes, i) ==
  LET cs == g.characterSet
      n == Len(prevRunes)
      mid == Mid(cs, Min(cs), Max(cs))
  IN IF i >= n THEN [key |-> prevRunes \o <<mid>>, err |-> NoError]
     ELSE LET prevChar == prevRunes[i + 1]
              nextChar == nextRunes[i + 1]
              nx == Mid(cs, prevChar, nextChar)
          IN IF prevChar = nextChar THEN BetweenScan(g, prevRunes, nextRunes, i + 1)
             ELSE IF nx > prevChar
               THEN [key |-> Slice(prevRunes, 0, i) \o <<nx>> \o Repeat(mid, n - i - 1),
                     err |-> NoError]
             ELSE IF nx < nextChar
                     /\ runesGreaterThan(Slice(nextRunes, 0, i), Slice(prevRunes, 0, i))
               THEN [key |-> Slice(nextRunes, 0, i) \o <<nx>> \o Repeat(mid, n - i - 1),
                     err |-> NoError]
             ELSE BetweenScan(g, prevRunes, nextRunes, i + 1)

\* the order check of the both-present case
OrderViolated(p, n) == StrLess(n, p)

\* the both-present case of Between
BetweenBoth(g, p, n) ==
  IF OrderViolated(p, n) THEN [key |-> <<>>, err |-> ErrOrder]
  ELSE LET len == IF Len(p) > Len(n) THEN Len(p) ELSE Len(n) IN
       BetweenScan(g, PadMin(g.characterSet, p, len), PadMin(g.characterSet, n, len), 0)

\* Generator.Between
Between(g, p, n) ==
  IF p = <<>> /\ n = <<>> THEN BetweenInitial(g)
  ELSE IF n = <<>> THEN BetweenAfter(g, p, Len(p) - 1)
  ELSE IF p = <<>> THEN BetweenBefore(g, n, Len(n) - 1)
  ELSE BetweenBoth(g, p, n)

\* the receiver of the generator's methods
Gen == [characterSet |-> characterSet, initial |-> initial]

---------------------------------------------------------------------------
(* Bucket.                                                                 *)

\* strings.Index(s, string(c)) + 1: the first position of c in s, 0 if none
IndexRune(s, c) ==
  LET hits == {j \in 1..Len(s) : s[j] = c}
  IN IF hits = {} THEN 0 ELSE CHOOSE j \in hits : \A k \in hits : j <= k

\* a split that leaves the separator at the head of the key
SplitBucketKeyKeepSeparator(b, k) ==
  LET i == IndexRune(k, b.separator)
  IN IF i = 0 THEN <<<<>>, <<>>>>
     ELSE <<SubSeq(k, 1, i - 1), SubSeq(k, i, Len(k))>>

\* Bucket.SplitBucketKey: strings.SplitN(key, separator, 2)
SplitBucketKey(b, k) ==
  LET i == IndexRune(k, b.separator)
  IN IF i = 0 THEN <<<<>>, <<>>>>
     ELSE <<SubSeq(k, 1, i - 1), SubSeq(k, i + 1, Len(k))>>

\* a createBucketKey that always writes the default prefix
createBucketKeyDefault(b, bk, k) == b.defaultPrefix \o <<b.separator>> \o k

\* Bucket.createBucketKey
createBucketKey(b, bk, k) ==
  (IF bk = <<>> THEN b.defaultPrefix ELSE bk) \o <<b.separator>> \o k

\* a mismatch check that never fires
BucketMismatchNever(prefix, nextBucket) == FALSE

\* the mismatch check of Bucket.Between
BucketMismatch(prefix, nextBucket) == prefix # <<>> /\ prefix # nextBucket

\* Bucket.Between
BucketBetween(b, g, p, n) ==
  LET ps == SplitBucketKey(b, p)
      ns == SplitBucketKey(b, n)
      prefix0 == IF p # <<>> THEN ps[1] ELSE <<>>
      pKey == IF p # <<>> THEN ps[2] ELSE <<>>
      nKey == IF n # <<>> THEN ns[2] ELSE <<>>
      prefix == IF n # <<>> THEN ns[1] ELSE prefix0
      r == Between(g, pKey, nKey)
  IN IF p # <<>> /\ ps[1] = <<>> THEN [key |-> <<>>, err |-> ErrPrevFormat]
     ELSE IF n # <<>> /\ ns[1] = <<>> THEN [key |-> <<>>, err |-> ErrNextFormat]
     ELSE IF n # <<>> /\ BucketMismatch(prefix0, ns[1])
       THEN [key |-> <<>>, err |-> ErrBucketMismatch]
     ELSE IF r.err # NoError THEN [key |-> <<>>, err |-> r.err]
     ELSE [key |-> createBucketKey(b, prefix, r.key), err |-> NoError]

---------------------------------------------------------------------------
(* The inputs: alphabets and keys.                                         *)

\* the alphabet arguments: "0", "10", "210", ... given in descending order
AlphabetInputs == {[i \in 1..n |-> 48 + n - i] : n \in 1..MaxAlphabet}

CharacterSets == {NewASCIICharacterSet(s).set : s \in AlphabetInputs}

\* the keys over a character set, "" (absent) included
Keys(cs, n) == SeqsUpTo({cs.runes[i] : i \in 1..Len(cs.runes)}, n)

\* the arguments of WithInitial: none, or a one- or two-character key
InitialOptions(cs) == {<<>>, <<Max(cs)>>, <<Min(cs), Max(cs)>>}

IdleBucket ==
  /\ bucket = [defaultPrefix |-> <<48>>, separator |-> 124]
  /\ prev = <<>>
  /\ next = <<>>
  /\ bucketKey = <<>>
  /\ tag = <<>>
  /\ bare = <<>>
  /\ split = <<<<>>, <<>>>>

IdleSet ==
  /\ set = <<>>
  /\ setResult = [set |-> NilSet, err |-> NoError]

notGenerator == <<keys, bucket, prev, next, bucketKey, tag, bare, split, set,
                  setResult>>

---------------------------------------------------------------------------
(* Spec: a caller of Generator.Between: one call on any pair of keys over  *)
(* the alphabet, then, the generator having served that call, a call with  *)
(* both bounds absent.                                                     *)

Init ==
  /\ characterSet \in CharacterSets
  /\ optInitial \in InitialOptions(characterSet)
  /\ initial = NewGenerator(characterSet, optInitial).initial
  /\ prevKey \in Keys(characterSet, MaxLen)
  /\ nextKey \in Keys(characterSet, MaxLen)
  /\ key = <<>>
  /\ err = NoError
  /\ pc = "call"
  /\ depth = MaxCalls
  /\ origin = <<>>
  /\ keys = {}
  /\ IdleBucket
  /\ IdleSet

\* key, err := g.Between(prevKey, nextKey)
CallBetween ==
  /\ pc = "call"
  /\ depth > 0
  /\ LET r == Between(Gen, prevKey, nextKey) IN
       /\ key' = r.key
       /\ err' = r.err
  /\ pc' = "done"
  /\ depth' = depth - 1
  /\ UNCHANGED <<characterSet, initial, optInitial, prevKey, nextKey, origin>>
  /\ UNCHANGED notGenerator

\* the caller goes on to g.Between("", "")
AskInitial ==
  /\ pc = "done"
  /\ depth > 0
  /\ prevKey' = <<>>
  /\ nextKey' = <<>>
  /\ pc' = "call"
  /\ UNCHANGED <<characterSet, initial, optInitial, key, err, depth, origin>>
  /\ UNCHANGED notGenerator

Next == CallBetween \/ AskInitial

Spec == Init /\ [][Next]_vars

---------------------------------------------------------------------------
(* SpecRecursive: testRecursive of the tests, over alphabets of two        *)
(* characters and more.  From a range the caller may ask for, a key is     *)
(* generated and the walk goes on into the range above it or the range     *)
(* below it, depth calls deep; an error ends the walk (noError is fatal).  *)

\* a range a caller may ask for: either bound absent, or p < n
ValidRange(p, n) == p = <<>> \/ n = <<>> \/ StrLess(p, n)

InitRecursive ==
  /\ characterSet \in {cs \in CharacterSets : Len(cs.runes) >= 2}
  /\ optInitial \in InitialOptions(characterSet)
  /\ initial = NewGenerator(characterSet, optInitial).initial
  /\ prevKey \in Keys(characterSet, MaxStartLen)
  /\ nextKey \in Keys(characterSet, MaxStartLen)
  /\ ValidRange(prevKey, nextKey)
  /\ key = <<>>
  /\ err = NoError
  /\ pc = "call"
  /\ depth = MaxDepth
  /\ origin = <<>>
  /\ keys = {}
  /\ IdleBucket
  /\ IdleSet

\* testRecursive(t, g, key, next, depth-1)
RecurseUpper ==
  /\ pc = "done"
  /\ err = NoError
  /\ depth > 0
  /\ prevKey' = key
  /\ pc' = "call"
  /\ UNCHANGED <<characterSet, initial, optInitial, nextKey, key, err, depth, origin>>
  /\ UNCHANGED notGenerator

\* testRecursive(t, g, prev, key, depth-1)
RecurseLower ==
  /\ pc = "done"
  /\ err = NoError
  /\ depth > 0
  /\ nextKey' = key
  /\ pc' = "call"
  /\ UNCHANGED <<characterSet, initial, optInitial, prevKey, key, err, depth, origin>>
  /\ UNCHANGED notGenerator

NextRecursive == CallBetween \/ RecurseUpper \/ RecurseLower

SpecRecursive == InitRecursive /\ [][NextRecursive]_vars

---------------------------------------------------------------------------
(* SpecKeep: the "keep generating key between target" loops of the tests,  *)
(* over alphabets of two characters and more.  origin is the fixed bound;  *)
(* the upper loop starts from Between("", origin) and feeds each key back  *)
(* as prev, the lower loop starts from Between(origin, "") and feeds each  *)
(* key back as next.                                                       *)

AllMin(cs, s) == \A i \in 1..Len(s) : s[i] = Min(cs)

InitKeep ==
  /\ characterSet \in {cs \in CharacterSets : Len(cs.runes) >= 2}
  /\ optInitial = <<>>
  /\ initial = NewGenerator(characterSet, optInitial).initial
  /\ \E side \in {"upper", "lower"} :
       \E bound \in Keys(characterSet, MaxLen) \ {<<>>} :
         /\ side = "upper" => ~AllMin(characterSet, bound)
         /\ origin = [side |-> side, bound |-> bound]
         /\ prevKey = IF side = "lower" THEN bound ELSE <<>>
         /\ nextKey = IF side = "upper" THEN bound ELSE <<>>
  /\ key = <<>>
  /\ err = NoError
  /\ pc = "call"
  /\ depth = MaxKeep
  /\ keys = {}
  /\ IdleBucket
  /\ IdleSet

\* keep = key, then g.Between(keep, target)
KeepUpper ==
  /\ pc = "done"
  /\ err = NoError
  /\ depth > 0
  /\ origin.side = "upper"
  /\ prevKey' = key
  /\ pc' = "call"
  /\ UNCHANGED <<characterSet, initial, optInitial, nextKey, key, err, depth, origin>>
  /\ UNCHANGED notGenerator

\* keep = key, then g.Between(target, keep)
KeepLower ==
  /\ pc = "done"
  /\ err = NoError
  /\ depth > 0
  /\ origin.side = "lower"
  /\ nextKey' = key
  /\ pc' = "call"
  /\ UNCHANGED <<characterSet, initial, optInitial, prevKey, key, err, depth, origin>>
  /\ UNCHANGED notGenerator

NextKeep == CallBetween \/ KeepUpper \/ KeepLower

SpecKeep == InitKeep /\ [][NextKeep]_vars

---------------------------------------------------------------------------
(* SpecLength: a caller of Generator.Between that keeps a list.  The first *)
(* call is on any pair of keys; when it was Between("", "") the key it     *)
(* returned starts the list, and each later call takes its bounds from the *)
(* list ("" for an absent bound) and its key joins the list, MaxInsert     *)
(* insertions in all.                                                      *)

InitLength ==
  /\ characterSet \in CharacterSets
  /\ optInitial \in InitialOptions(characterSet)
  /\ initial = NewGenerator(characterSet, optInitial).initial
  /\ prevKey \in Keys(characterSet, MaxLen)
  /\ nextKey \in Keys(characterSet, MaxLen)
  /\ key = <<>>
  /\ err = NoError
  /\ pc = "call"
  /\ depth = MaxInsert + 1
  /\ origin = <<>>
  /\ keys = {}
  /\ IdleBucket
  /\ IdleSet

\* the key returned joins the list; the next bounds are keys of the list
InsertKey ==
  /\ pc = "done"
  /\ err = NoError
  /\ keys # {} \/ (prevKey = <<>> /\ nextKey = <<>>)
  /\ keys' = keys \cup {key}
  /\ IF depth > 0
       THEN /\ prevKey' \in keys' \cup {<<>>}
            /\ nextKey' \in keys' \cup {<<>>}
            /\ pc' = "call"
       ELSE /\ pc' = "end"
            /\ UNCHANGED <<prevKey, nextKey>>
  /\ UNCHANGED <<characterSet, initial, optInitial, key, err, depth, origin>>
  /\ UNCHANGED <<bucket, prev, next, bucketKey, tag, bare, split, set, setResult>>

NextLength == CallBetween \/ InsertKey

SpecLength == InitLength /\ [][NextLength]_vars

---------------------------------------------------------------------------
(* SpecBucket: one call of Bucket.Between on any pair of strings over the  *)
(* characters '0', '1' and the separator '|'.                              *)

\* '0', '1' and '|'
BucketChars == {48, 49, 124}

\* the arguments of WithDefaultPrefix: "0" (the default) or "1"
DefaultPrefixes == {<<48>>, <<49>>}

IdleCall ==
  /\ prevKey = <<>>
  /\ nextKey = <<>>
  /\ key = <<>>
  /\ err = NoError
  /\ depth = 1
  /\ origin = <<>>
  /\ keys = {}

InitBucket ==
  /\ characterSet \in {cs \in CharacterSets : Len(cs.runes) >= 2}
  /\ optInitial = <<>>
  /\ initial = NewGenerator(characterSet, optInitial).initial
  /\ IdleCall
  /\ pc = "call"
  /\ bucket \in {[defaultPrefix |-> d, separator |-> 124] : d \in DefaultPrefixes}
  /\ prev \in SeqsUpTo(BucketChars, MaxBucketLen)
  /\ next \in SeqsUpTo(BucketChars, MaxBucketLen)
  /\ bucketKey = <<>>
  /\ tag = <<>>
  /\ bare = <<>>
  /\ split = <<<<>>, <<>>>>
  /\ IdleSet

\* bucketKey, err := bucket.Between(prev, next)
CallBucketBetween ==
  /\ pc = "call"
  /\ LET r == BucketBetween(bucket, Gen, prev, next) IN
       /\ bucketKey' = r.key
       /\ err' = r.err
  /\ pc' = "done"
  /\ UNCHANGED <<characterSet, initial, optInitial, prevKey, nextKey, key, depth,
                 origin, keys, bucket, prev, next, tag, bare, split, set, setResult>>

SpecBucket == InitBucket /\ [][CallBucketBetween]_vars

---------------------------------------------------------------------------
(* SpecRoundTrip: createBucketKey on any tag and key, then SplitBucketKey  *)
(* on the bucket key it built.                                             *)

InitRoundTrip ==
  /\ characterSet \in {cs \in CharacterSets : Len(cs.runes) = 2}
  /\ optInitial = <<>>
  /\ initial = NewGenerator(characterSet, optInitial).initial
  /\ IdleCall
  /\ pc = "create"
  /\ bucket \in {[defaultPrefix |-> d, separator |-> 124] : d \in DefaultPrefixes}
  /\ prev = <<>>
  /\ next = <<>>
  /\ bucketKey = <<>>
  /\ tag \in SeqsUpTo(BucketChars, MaxTagLen)
  /\ bare \in SeqsUpTo(BucketChars, MaxTagLen)
  /\ split = <<<<>>, <<>>>>
  /\ IdleSet

\* bucketKey := b.createBucketKey(tag, bare)
CallCreateBucketKey ==
  /\ pc = "create"
  /\ bucketKey' = createBucketKey(bucket, tag, bare)
  /\ pc' = "split"
  /\ UNCHANGED <<characterSet, initial, optInitial, prevKey, nextKey, key, err, depth,
                 origin, keys, bucket, prev, next, tag, bare, split, set, setResult>>

\* split := b.SplitBucketKey(bucketKey)
CallSplitBucketKey ==
  /\ pc = "split"
  /\ split' = SplitBucketKey(bucket, bucketKey)
  /\ pc' = "done"
  /\ UNCHANGED <<characterSet, initial, optInitial, prevKey, nextKey, key, err, depth,
                 origin, keys, bucket, prev, next, bucketKey, tag, bare, set, setResult>>

NextRoundTrip == CallCreateBucketKey \/ CallSplitBucketKey

SpecRoundTrip == InitRoundTrip /\ [][NextRoundTrip]_vars

---------------------------------------------------------------------------
(* SpecSet: one call of NewASCIICharacterSet on any string over '0', '1',  *)
(* '2' and the non-ASCII rune U+00C8.                                      *)

SetChars == {48, 49, 50, 200}

InitSet ==
  /\ characterSet = NilSet
  /\ optInitial = <<>>
  /\ initial = <<>>
  /\ IdleCall
  /\ pc = "call"
  /\ IdleBucket
  /\ set \in SeqsUpTo(SetChars, MaxSetLen)
  /\ setResult = [set |-> NilSet, err |-> NoError]

\* setResult := NewASCIICharacterSet(set)
CallNewASCIICharacterSet ==
  /\ pc = "call"
  /\ setResult' = NewASCIICharacterSet(set)
  /\ pc' = "done"
  /\ UNCHANGED <<characterSet, initial, optInitial, prevKey, nextKey, key, err, depth,
                 origin, keys, bucket, prev, next, bucketKey, tag, bare, split, set>>

SpecSet == InitSet /\ [][CallNewASCIICharacterSet]_vars

---------------------------------------------------------------------------
(* What the claims speak of.                                               *)

\* validateKey of the tests: k lies strictly inside the bounds that are present
Bounded(p, n, k) ==
  /\ p # <<>> => StrLess(p, k)
  /\ n # <<>> => StrLess(k, n)

\* an alphabet as the data model has it: at least two characters
ValidAlphabet(cs) == Len(cs.runes) >= 2

\* the largest character of the alphabet below c
Predecessor(cs, c) ==
  LET chars == {cs.runes[i] : i \in 1..Len(cs.runes)}
  IN CHOOSE x \in chars : x < c /\ \A y \in chars : y < c => y <= x

\* s with the last non-minimum character replaced by its predecessor and
\* every later position set to the maximum
BeforeReference(cs, s) ==
  LET i == CHOOSE k \in 1..Len(s) :
             s[k] # Min(cs) /\ \A j \in (k + 1)..Len(s) : s[j] = Min(cs)
  IN [j \in 1..Len(s) |-> IF j < i THEN s[j]
                          ELSE IF j = i THEN Predecessor(cs, s[i])
                          ELSE Max(cs)]

---------------------------------------------------------------------------
(* C1: over a valid alphabet, every key Between returns for a valid range  *)
(* (prev < next, or either bound absent) lies strictly above prev when     *)
(* prev is present and strictly below next when next is present.           *)
C1_BoundingInvariant ==
  (pc = "done" /\ err = NoError /\ ValidAlphabet(characterSet)
     /\ ValidRange(prevKey, nextKey))
    => Bounded(prevKey, nextKey, key)

(* C2: with both bounds present and prev >= next (prev = next included),   *)
(* Between returns an error and no key.                                    *)
C2_OrderingViolation ==
  (pc = "done" /\ prevKey # <<>> /\ nextKey # <<>> /\ ~StrLess(prevKey, nextKey))
    => (err # NoError /\ key = <<>>)

(* C4: Between(absent, next) fails exactly when every character of next is *)
(* the minimum; otherwise it returns next with its last non-minimum        *)
(* character replaced by the predecessor and every later position set to   *)
(* the maximum.                                                            *)
C4_BeforeExhaustion ==
  (pc = "done" /\ prevKey = <<>> /\ nextKey # <<>>)
    => /\ (err # NoError) <=> AllMin(characterSet, nextKey)
       /\ err # NoError => key = <<>>
       /\ err = NoError => key = BeforeReference(characterSet, nextKey)

\* a "before" call that replaced a character and reset the positions after it
C4_Witness ==
  /\ pc = "done" /\ prevKey = <<>> /\ Len(nextKey) >= 2
  /\ nextKey[Len(nextKey)] = Min(characterSet)
  /\ err = NoError
  /\ key[Len(key)] = Max(characterSet)
  /\ Max(characterSet) # Min(characterSet)

(* C10: Between(absent, absent) returns the configured initial key, also   *)
(* after an earlier call; with no initial key configured it is the         *)
(* character Mid(Min, Max) repeated 6 times.                               *)
C10_InitialValue ==
  (pc = "done" /\ prevKey = <<>> /\ nextKey = <<>>)
    => /\ err = NoError
       /\ optInitial # <<>> => key = optInitial
       /\ optInitial = <<>> =>
            key = [i \in 1..6 |-> Mid(characterSet, Min(characterSet), Max(characterSet))]

\* the initial key asked for after another call was served, none configured
C10_Witness ==
  /\ pc = "done" /\ depth = 0 /\ prevKey = <<>> /\ nextKey = <<>>
  /\ optInitial = <<>>
  /\ Len(key) = 6

(* C3: in the recursive walk from any valid range, every key a call        *)
(* returns lies strictly inside the range it was asked for.  (The claim    *)
(* also has every call succeed; a call that fails returns no key and ends  *)
(* the walk, so this is the part of it that speaks of the keys returned.)  *)
C3_UnboundedInsertion ==
  (pc = "done" /\ err = NoError) => Bounded(prevKey, nextKey, key)

(* C5: in the keep-generating loops over an alphabet of at least two       *)
(* characters, every call returns a key without error, strictly between    *)
(* the key of the step before and the fixed bound.                         *)
C5_KeepGenerating ==
  pc = "done" => (err = NoError /\ Bounded(prevKey, nextKey, key))

\* s holds the separator
HasSeparator(b, s) == \E j \in 1..Len(s) : s[j] = b.separator

\* the text of a namespaced key before its first separator
TagOf(b, s) ==
  LET i == CHOOSE j \in 1..Len(s) :
             s[j] = b.separator /\ \A k \in 1..(j - 1) : s[k] # b.separator
  IN [j \in 1..(i - 1) |-> s[j]]

\* the text of a namespaced key after its first separator
BareOf(b, s) ==
  LET i == Len(TagOf(b, s)) + 1
  IN [j \in 1..(Len(s) - i) |-> s[i + j]]

\* both bounds are present and namespaced, and their tags differ
TagsDiffer ==
  /\ prev # <<>> /\ next # <<>>
  /\ HasSeparator(bucket, prev) /\ HasSeparator(bucket, next)
  /\ TagOf(bucket, prev) # TagOf(bucket, next)

(* C6: for two present namespaced bounds whose tags differ, Bucket.Between *)
(* returns ErrBucketMismatch and no key.                                   *)
C6_BucketMismatch ==
  (pc = "done" /\ TagsDiffer) => (err = ErrBucketMismatch /\ bucketKey = <<>>)

(* C6 as amended: for two present namespaced bounds whose tags are both    *)
(* non-empty and differ, Bucket.Between returns ErrBucketMismatch and no   *)
(* key; with an empty tag it fails too, and returns no key.                *)
C6_BucketMismatchNonEmptyTags ==
  (pc = "done" /\ TagsDiffer)
    => /\ err # NoError /\ bucketKey = <<>>
       /\ (TagOf(bucket, prev) # <<>> /\ TagOf(bucket, next) # <<>>)
            => err = ErrBucketMismatch

\* two different non-empty tags before bare keys the generator would accept
C6_Witness ==
  /\ pc = "done" /\ TagsDiffer
  /\ TagOf(bucket, prev) # <<>> /\ TagOf(bucket, next) # <<>>
  /\ Between(Gen, BareOf(bucket, prev), BareOf(bucket, next)).err = NoError
  /\ err = ErrBucketMismatch

\* the bare key of a bound ("" for an absent bound)
BareKey(s) == IF s = <<>> THEN <<>> ELSE BareOf(bucket, s)

\* the tag the claim resolves: the tag of a present bound, else the default
ResolvedTag ==
  IF next # <<>> THEN TagOf(bucket, next)
  ELSE IF prev # <<>> THEN TagOf(bucket, prev)
  ELSE bucket.defaultPrefix

(* C7: a successful Bucket.Between returns <tag><separator><k>, k the key  *)
(* Generator.Between returns for the bare keys and tag the shared tag, the *)
(* tag of the only present bound, or the default tag with both absent; and *)
(* when the generator call fails, Bucket.Between fails.                    *)
C7_TagResolution ==
  pc = "done" =>
    /\ err = NoError =>
         /\ prev # <<>> => HasSeparator(bucket, prev)
         /\ next # <<>> => HasSeparator(bucket, next)
         /\ (prev # <<>> /\ next # <<>>) => TagOf(bucket, prev) = TagOf(bucket, next)
         /\ Between(Gen, BareKey(prev), BareKey(next)).err = NoError
         /\ bucketKey = ResolvedTag \o <<bucket.separator>>
                          \o Between(Gen, BareKey(prev), BareKey(next)).key
    /\ ((prev # <<>> => HasSeparator(bucket, prev))
          /\ (next # <<>> => HasSeparator(bucket, next))
          /\ Between(Gen, BareKey(prev), BareKey(next)).err # NoError)
         => err # NoError

\* a successful call with both bounds present under a tag other than the default
C7_Witness ==
  /\ pc = "done" /\ err = NoError
  /\ prev # <<>> /\ next # <<>>
  /\ TagOf(bucket, prev) # bucket.defaultPrefix
  /\ Len(bucketKey) > Len(TagOf(bucket, prev)) + 1

(* C8: for every tag and key without the separator, SplitBucketKey of the  *)
(* bucket key createBucketKey builds from them yields back (tag, key).     *)
C8_RoundTrip ==
  (pc = "done" /\ ~HasSeparator(bucket, tag) /\ ~HasSeparator(bucket, bare))
    => split = <<tag, bare>>

(* C8 as amended: for every non-empty tag and every key without the        *)
(* separator, SplitBucketKey of the bucket key createBucketKey builds from *)
(* them yields back (tag, key).                                            *)
C8_RoundTripNonEmptyTag ==
  (pc = "done" /\ tag # <<>>
     /\ ~HasSeparator(bucket, tag) /\ ~HasSeparator(bucket, bare))
    => split = <<tag, bare>>

\* a round trip of a non-empty tag and a non-empty key
C8_Witness ==
  /\ pc = "done" /\ tag # <<>> /\ bare # <<>>
  /\ ~HasSeparator(bucket, tag) /\ ~HasSeparator(bucket, bare)
  /\ split = <<tag, bare>>

\* some character occurs more than once in s
HasDuplicate(s) == \E i, j \in 1..Len(s) : i # j /\ s[i] = s[j]

(* C9: NewASCIICharacterSet returns an error and no character set for      *)
(* every string in which some character occurs more than once.             *)
C9_RejectsDuplicates ==
  (pc = "done" /\ HasDuplicate(set))
    => (setResult.err # NoError /\ setResult.set = NilSet)

\* the smallest character of the alphabet above c
Successor(cs, c) ==
  LET chars == {cs.runes[i] : i \in 1..Len(cs.runes)}
  IN CHOOSE x \in chars : x > c /\ \A y \in chars : y > c => x <= y

AllMax(cs, s) == \A i \in 1..Len(s) : s[i] = Max(cs)

\* s with the last non-maximum character replaced by its successor and every
\* later position set to the minimum; an all-maximum s with the successor of
\* the minimum appended
AfterReference(cs, s) ==
  IF AllMax(cs, s) THEN s \o <<Successor(cs, Min(cs))>>
  ELSE LET i == CHOOSE k \in 1..Len(s) :
                  s[k] # Max(cs) /\ \A j \in (k + 1)..Len(s) : s[j] = Max(cs)
       IN [j \in 1..Len(s) |-> IF j < i THEN s[j]
                               ELSE IF j = i THEN Successor(cs, s[i])
                               ELSE Min(cs)]

(* C11: over an alphabet of at least two characters Between(prev, absent)  *)
(* never fails and returns prev with its last character that has a         *)
(* successor replaced by it and every later position set to the minimum,   *)
(* or an all-maximum prev with the successor of the minimum appended (not  *)
(* the minimum); over a one-character alphabet the call fails.             *)
C11_AfterAlgorithm ==
  (pc = "done" /\ prevKey # <<>> /\ nextKey = <<>>)
    => /\ ValidAlphabet(characterSet) =>
            /\ err = NoError
            /\ key = AfterReference(characterSet, prevKey)
            /\ key # prevKey \o <<Min(characterSet)>>
       /\ ~ValidAlphabet(characterSet) => (err # NoError /\ key = <<>>)

\* an "after" call on an all-maximum key of two characters, which grew by one
C11_Witness ==
  /\ pc = "done" /\ nextKey = <<>> /\ Len(prevKey) = 2
  /\ ValidAlphabet(characterSet)
  /\ AllMax(characterSet, prevKey)
  /\ err = NoError
  /\ Len(key) = 3

\* s extended with the minimum character up to length n
Padded(cs, s, n) == [j \in 1..n |-> IF j <= Len(s) THEN s[j] ELSE Min(cs)]

PaddedLen == IF Len(prevKey) > Len(nextKey) THEN Len(prevKey) ELSE Len(nextKey)

PaddedPrev == Padded(characterSet, prevKey, PaddedLen)

PaddedNext == Padded(characterSet, nextKey, PaddedLen)

\* the alphabet's own midpoint character
AlphabetMid == Mid(characterSet, Min(characterSet), Max(characterSet))

\* both bounds present and prev < next
BothInOrder == prevKey # <<>> /\ nextKey # <<>> /\ StrLess(prevKey, nextKey)

\* the first position where the padded keys differ (they do differ)
FirstDiff ==
  CHOOSE i \in 1..PaddedLen :
    PaddedPrev[i] # PaddedNext[i] /\ \A j \in 1..(i - 1) : PaddedPrev[j] = PaddedNext[j]

\* the midpoint at the first differing position lies strictly above prev's character
SplitsAtFirstDiff ==
  /\ BothInOrder
  /\ PaddedPrev # PaddedNext
  /\ Mid(characterSet, PaddedPrev[FirstDiff], PaddedNext[FirstDiff]) > PaddedPrev[FirstDiff]

\* the common prefix, the midpoint at the first differing position, then fill
SplitResult(fill) ==
  [j \in 1..PaddedLen |->
     IF j < FirstDiff THEN PaddedPrev[j]
     ELSE IF j = FirstDiff
       THEN Mid(characterSet, PaddedPrev[FirstDiff], PaddedNext[FirstDiff])
     ELSE fill]

(* C12: with both bounds present and prev < next, when the midpoint at the *)
(* first position where the padded keys differ is strictly above prev's    *)
(* character, the result is the common prefix, that midpoint, then the     *)
(* minimum character at every remaining position.                          *)
C12_MidpointSplitMin ==
  (pc = "done" /\ SplitsAtFirstDiff)
    => (err = NoError /\ key = SplitResult(Min(characterSet)))

(* C12 as amended: ... the result is the common prefix, that midpoint,     *)
(* then the alphabet's own midpoint character Mid(Min, Max) at every       *)
(* remaining position.                                                     *)
C12_MidpointSplitMid ==
  (pc = "done" /\ SplitsAtFirstDiff)
    => (err = NoError /\ key = SplitResult(AlphabetMid))

\* a split before the last position, over an alphabet whose midpoint is not its minimum
C12_Witness ==
  /\ pc = "done" /\ SplitsAtFirstDiff
  /\ FirstDiff < PaddedLen
  /\ AlphabetMid # Min(characterSet)
  /\ err = NoError
  /\ key[PaddedLen] = AlphabetMid

\* position i of the padded keys admits a split: the midpoint lies above
\* prev's character, or below next's with next's prefix above prev's
SplitAt(i) ==
  LET m == Mid(characterSet, PaddedPrev[i], PaddedNext[i])
  IN /\ PaddedPrev[i] # PaddedNext[i]
     /\ \/ m > PaddedPrev[i]
        \/ /\ m < PaddedNext[i]
           /\ StrLess(SubSeq(PaddedPrev, 1, i - 1), SubSeq(PaddedNext, 1, i - 1))

\* a call on ordered bounds that found no split
GrowthCase == BothInOrder /\ \A i \in 1..PaddedLen : ~SplitAt(i)

(* C13: with both bounds present and prev < next, when no position of the  *)
(* padded keys yields a split, the result is prev, unpadded, with the      *)
(* alphabet's own midpoint character appended, whatever the lengths.       *)
C13_GrowthUnpadded ==
  (pc = "done" /\ GrowthCase) => (err = NoError /\ key = prevKey \o <<AlphabetMid>>)

(* C13 as amended: ... the result is prev padded with the minimum          *)
(* character to the length of the longer bound, with the alphabet's own    *)
(* midpoint character appended (prev itself when it is not the shorter).   *)
C13_GrowthPadded ==
  (pc = "done" /\ GrowthCase)
    => /\ err = NoError
       /\ key = PaddedPrev \o <<AlphabetMid>>
       /\ Len(prevKey) >= Len(nextKey) => key = prevKey \o <<AlphabetMid>>

\* growth from a prev shorter than next and not next's prefix, over an alphabet
\* whose midpoint is not its minimum
C13_Witness ==
  /\ pc = "done" /\ GrowthCase
  /\ Len(prevKey) < Len(nextKey)
  /\ PaddedPrev # PaddedNext
  /\ AlphabetMid # Min(characterSet)
  /\ err = NoError
  /\ Len(key) = Len(nextKey) + 1

---------------------------------------------------------------------------
(* C14: every key Between returns for a call with a bound present is at    *)
(* most one character longer than the longer bound, a key returned for a   *)
(* call with only next present is exactly as long as next, and in a list   *)
(* that started from the initial key and took every bound from itself,     *)
(* after m insertions no key is longer than the initial key plus m.        *)

MaxOf(a, b) == IF a >= b THEN a ELSE b

\* the insertions made so far into a list that started from the initial key
Insertions == MaxInsert - depth

C14_LengthBound ==
  /\ (pc = "done" /\ (prevKey # <<>> \/ nextKey # <<>>))
       => Len(key) <= MaxOf(Len(prevKey), Len(nextKey)) + 1
  /\ (pc = "done" /\ err = NoError /\ prevKey = <<>> /\ nextKey # <<>>)
       => Len(key) = Len(nextKey)
  /\ \A k \in keys : Len(k) <= Len(initial) + Insertions

\* a list over a valid alphabet whose every insertion made a new key, the
\* longest one character longer each time, the last one strictly between two
\* keys of the list
C14_Witness ==
  /\ pc = "end"
  /\ ValidAlphabet(characterSet)
  /\ Cardinality(keys) = MaxInsert + 1
  /\ StrLess(prevKey, nextKey)
  /\ Bounded(prevKey, nextKey, key)
  /\ Insertions = MaxInsert
  /\ \E k \in keys : Len(k) = Len(initial) + MaxInsert

====
